---- MODULE Spec2Model ----
(***************************************************************************)
(* Input-shaping worker loop of the Jacinto Input Refiner                  *)
(* (SRC/input_refiner_pyqt6_stable_patched_ultrasens_Patched.py).          *)
(*                                                                         *)
(* Representation.  Python floats are held in fixed point: a real r is the *)
(* integer r * One, and every product or quotient truncates toward zero.   *)
(* Times (time.perf_counter) are integers in units of 1e-4 s, the lower    *)
(* clamp of dt.  Pixel deltas, trigger values, button masks and counters   *)
(* are the integers the program uses.  Exponents (curve_exponent,          *)
(* softzone_k) are taken to the tenth: a power is a repeated product of    *)
(* the base and of its tenth root.  The stick normalizer compares and      *)
(* rescales magnitudes in raw axis units.                                  *)
(***************************************************************************)
EXTENDS Integers, Sequences, FiniteSets, TLC

\* ---------------------------------------------------------------- bounds
\* fixed-point unit (1.0) and clock units per second (1e-4 s each)
One == 10 * 10
TicksPerSecond == 100 * 100
MaxNowShape == 114
MaxNowAim == 76
MaxNowCaps == 280
MaxNowUi == 76
MaxNowFault == 57
MaxNowGuard == 57
MaxNowBand == 57
MaxNowRange == 57
MaxNowRamp == 95
MaxRestartQueue == 1
MaxApplies == 1
MaxStarts == 4

\* A configuration value that int() / float() reject (for instance the
\* string "fast"): apply_config and load_profile perform no typing.
NotANumber == 0 - 999999

\* A float that is not finite (inf, -inf or nan), as a configuration value
\* (float('inf')) and as the value of an accumulator.
NonFinite == 0 - 888888

\* --------------------------------------------------------- float helpers
Abs(a) == IF a < 0 THEN 0 - a ELSE a
Max(a, b) == IF a >= b THEN a ELSE b
Min(a, b) == IF a <= b THEN a ELSE b
Clamp(lo, hi, v) == Max(lo, Min(hi, v))

\* integer quotient truncated toward zero, as Python's int(a / b) for b > 0
TDiv(a, b) == IF a >= 0 THEN a \div b ELSE 0 - ((0 - a) \div b)

\* fixed-point product and quotient
FMul(a, b) == TDiv(a * b, One)

\* int(x) of a fixed-point value
ToInt(a) == TDiv(a, One)

RECURSIVE SqrtBetween(_, _, _)
SqrtBetween(n, lo, hi) ==
  IF lo >= hi THEN lo
  ELSE LET mid == (lo + hi + 1) \div 2
       IN  IF mid * mid <= n THEN SqrtBetween(n, mid, hi)
           ELSE SqrtBetween(n, lo, mid - 1)

\* floor of the square root (of a 32-bit value: the root is below 46341)
ISqrt(n) == SqrtBetween(n, 0, Min(n, 46340))

\* math.hypot on fixed-point arguments of magnitude at most 1.0
Hypot(a, b) == ISqrt(a * a + b * b)

RECURSIVE PowN(_, _)
PowN(a, n) == IF n <= 0 THEN One ELSE FMul(a, PowN(a, n - 1))

RECURSIVE RootBetween(_, _, _)
RootBetween(a, lo, hi) ==
  IF lo >= hi THEN lo
  ELSE LET mid == (lo + hi) \div 2
       IN  IF PowN(mid, 10) >= a THEN RootBetween(a, lo, mid)
           ELSE RootBetween(a, mid + 1, hi)

\* a ** 0.1: the least fixed-point value whose tenth power reaches a
\* (0 for 0, 1.0 for 1.0)
TenthRoot(a) == RootBetween(a, 0, Max(a, One))

\* a ** e for a >= 0 and a fixed-point exponent e >= 0, to the tenth of the
\* exponent: a ** whole * (a ** 0.1) ** tenths
FPow(a, e) ==
  FMul(PowN(a, e \div One), PowN(TenthRoot(a), (e % One) \div (One \div 10)))

\* ------------------------------------------------------------- constants
XINPUT_GAMEPAD_RIGHT_THUMB_DEADZONE == 8689
XINPUT_FACE_MASK == {"A", "B", "X", "Y"}
AxisMax == 32767

\* ----------------------------------------------------------------- Config
\* Field defaults of the dataclass, with curve_exponent 1.30 and softzone_k
\* 1.80 replaced by the nearest whole numbers the fixed-point power supports.
Config ==
  [ target_window_substring |-> "Gears of War: Reloaded",
    enabled |-> TRUE, only_when_focused |-> TRUE, invert_y |-> FALSE,
    poll_hz |-> 240, use_correlation |-> TRUE,
    base_sens |-> 35, ads_sens |-> 10,
    game_slider_max |-> 3000, game_slider_current |-> 1200,
    desired_base_slider |-> 1800, desired_ads_slider |-> 1000,
    ads_trigger |-> "LT", ads_trigger_threshold |-> 45,
    deadzone_right |-> XINPUT_GAMEPAD_RIGHT_THUMB_DEADZONE,
    curve_exponent |-> 100, pixel_scale |-> 1200, jitter_threshold |-> 1,
    smoothing_alpha |-> 25, sens_ramp |-> 20,
    max_pixels_per_tick |-> 40, max_pixels_per_second |-> 3600,
    ads_hysteresis |-> 8,
    engage_threshold_norm |-> 2, release_threshold_norm |-> 1,
    softzone_k |-> 200, idle_epsilon |-> 2, idle_frames_to_zero |-> 8,
    inhibit_mouse_when_buttons |-> TRUE,
    micro_jolt_radius_norm |-> 12, micro_slew_cap_pixels |-> 3,
    dir_flip_guard |-> TRUE,
    cover_guard_enabled |-> TRUE, cover_button |-> "A",
    cover_guard_ms |-> 180, cover_release_ms |-> 120, cover_scale |-> 85,
    cover_extra_clamp |-> 2, cover_extra_slew |-> 1,
    cover_snap_max_px |-> 6, cover_gate_norm |-> 10, cover_decay_ms |-> 220,
    cover_ads_exempt |-> TRUE ]

\* ------------------------------------------------------------------ Math
\* The axes and the deadzone are kept in raw units (1/32767) up to the
\* rescaling, whose factors carry four decimals; the result is in fixed
\* point.  Valid for dz < 32767, where max(1e-6, 1.0 - dz_n) is 1.0 - dz_n.
Fine == One * One

\* nx = max(-1.0, min(1.0, x/32767.0)), in raw units
ClampAxis(a) == Clamp(0 - AxisMax, AxisMax, a)

\* math.hypot(nx, ny) > dz_n in IEEE doubles where x*x + y*y = dz*dz holds
\* exactly: the outcomes CPython computes for the off-axis pairs on a
\* deadzone circle that the model explores (on an axis hypot is exact)
HypotRoundsAbove(ax, ay, d) ==
  <<ax, ay, d>> \in { <<105, 1100, 1105>>, <<1100, 105, 1105>>,
                      <<18000, 24000, 30000>>, <<24000, 18000, 30000>> }

\* if mag <= dz_n: return 0.0, 0.0
InDeadzone(x, y, dz) ==
  LET cx == ClampAxis(x)
      cy == ClampAxis(y)
      d == Clamp(0, AxisMax, dz)
      m2 == cx * cx + cy * cy
  IN  \/ m2 < d * d
      \/ m2 = d * d /\ ~HypotRoundsAbove(Abs(cx), Abs(cy), d)

normalize_right_stick(x, y, dz) ==
  LET cx == ClampAxis(x)
      cy == ClampAxis(y)
      d == Clamp(0, AxisMax, dz)
      mag == ISqrt(cx * cx + cy * cy)
      new_mag == TDiv((mag - d) * Fine, AxisMax - d)
  IN  IF InDeadzone(x, y, dz) THEN <<0, 0>>
      ELSE <<Clamp(0 - One, One, TDiv(TDiv(cx * new_mag, mag), Fine \div One)),
             Clamp(0 - One, One, TDiv(TDiv(cy * new_mag, mag), Fine \div One))>>

\* a curve that drops the sign of its argument
apply_curve_unsigned(v, exp) == FPow(Abs(v), Max(One \div 10, exp))

\* s * (abs(v) ** max(0.1, float(exp))), s the sign of v
apply_curve(v, exp) ==
  LET s == IF v >= 0 THEN 1 ELSE 0 - 1
  IN  s * FPow(Abs(v), Max(One \div 10, exp))

sens_multiplier_from_sliders(game_val, desired_val, game_max) ==
  LET game == Max(One \div 10, game_val)
      desired == Max(One \div 10, desired_val)
      mul == TDiv(desired * One, game)
      gmax == Max(One \div 10, game_max)
      soft_cap == Max(2 * One, Min(8 * One,
                      TDiv(gmax * One, Max(One \div 10, Min(desired, game)))))
      mul2 == IF mul > soft_cap THEN soft_cap + TDiv(mul - soft_cap, 4) ELSE mul
  IN  Max(One \div 20, Min(mul2, 500 * One))

\* ------------------------------------------------- stages of one tick
\* the range of the poll rate: max(60, ...) in the loop, and the UI's
\* pollBox.setRange(60, 360)
PollHzMin == 60
PollHzMax == 360

\* tick = 1.0 / max(60, int(poll_hz or 240)), in clock units
PollTick(poll_hz) ==
  TicksPerSecond \div Max(PollHzMin, IF poll_hz = 0 THEN 240 ELSE poll_hz)

\* dt = max(1e-4, min(0.1, now - t_prev))
ClampDt(elapsed) == Clamp(1, TicksPerSecond \div 10, elapsed)

\* the selected trigger's value
TrigValue(trig, lt, rt) == IF trig = "LT" THEN lt ELSE rt

\* aim-mode decided by the bare threshold, whatever the previous mode
AdsWithoutHysteresis(ads_prev, trig_val, thr, hyst) == trig_val > thr

\* aim-mode (ADS) with hysteresis around the threshold
AdsUpdate(ads_prev, trig_val, thr, hyst) ==
  IF ads_prev THEN trig_val > Max(0, thr - hyst)
  ELSE trig_val > Min(255, thr + hyst)

SensTarget(c, ads) ==
  LET base_mult == sens_multiplier_from_sliders(c.game_slider_current,
                       c.desired_base_slider, c.game_slider_max)
      ads_mult == sens_multiplier_from_sliders(c.game_slider_current,
                       c.desired_ads_slider, c.game_slider_max)
      tgt == IF c.use_correlation
             THEN (IF ads THEN ads_mult ELSE base_mult)
             ELSE (IF ads THEN c.ads_sens ELSE c.base_sens)
  IN  Max(1, tgt)

\* ramp of the current sensitivity toward its target
Ramp(sens_curr, sens_tgt, sens_ramp) ==
  LET s0 == IF sens_curr <= 0 THEN sens_tgt ELSE sens_curr
      ramp == Clamp(0, One, sens_ramp)
  IN  s0 + FMul(ramp, sens_tgt - s0)

\* one-pole low-pass step of one axis
LowPass(f, n, alpha) ==
  LET beta == Clamp(0, (95 * One) \div 100, alpha)
  IN  f + FMul(beta, n - f)

\* soft zone: the filtered pair scaled by magp ** (k - 1)
SoftZone(fx, fy, softzone_k) ==
  LET magp == Hypot(fx, fy)
      k == Max(One, softzone_k)
      scale_soft == FPow(magp, k - One)
  IN  IF magp > 0 /\ k > One
      THEN [f_nx |-> FMul(fx, scale_soft), f_ny |-> FMul(fy, scale_soft),
            magp |-> Hypot(FMul(fx, scale_soft), FMul(fy, scale_soft))]
      ELSE [f_nx |-> fx, f_ny |-> fy, magp |-> magp]

EngageThreshold(c) == Clamp(0, One \div 2, c.engage_threshold_norm)
ReleaseThreshold(c) == Clamp(0, One \div 2, c.release_threshold_norm)

\* a gate without the release threshold: live only at or above engage
GateWithoutRelease(engaged, magp, engage, release) == magp >= engage

\* engage / release gating
GateUpdate(engaged, magp, engage, release) ==
  IF ~engaged THEN magp >= engage ELSE ~(magp < release)

\* cap_dt = max(2, int(min(cap_tick, cap_ps * dt)))
CapDt(c, dt) ==
  LET cap_tick == Max(2, c.max_pixels_per_tick)
      cap_ps == Max(200, c.max_pixels_per_second)
  IN  Max(2, Min(cap_tick, (cap_ps * dt) \div TicksPerSecond))

\* if d > cap: d = cap  elif d < -cap: d = -cap
ClampAbs(d, cap) == IF d > cap THEN cap ELSE IF d < 0 - cap THEN 0 - cap ELSE d

\* if d > prev + cap: d = prev + cap  elif d < prev - cap: d = prev - cap
SlewLimit(d, prev, cap) ==
  IF d > prev + cap THEN prev + cap
  ELSE IF d < prev - cap THEN prev - cap ELSE d

\* a guard that lets the sign flip through
FlipGuardOff(d, prev) == d

\* extra clamp on sign flips inside the tiny radius
FlipGuard(d, prev) ==
  IF prev # 0 /\ (d = 0 \/ ((d > 0) # (prev > 0))) THEN TDiv(prev, 2) ELSE d

\* only allow a small per-tick change inside the tiny radius
MicroClamp(d, prev, micro_cap) ==
  IF d > prev + micro_cap THEN prev + micro_cap
  ELSE IF d < prev - micro_cap THEN prev - micro_cap ELSE d

\* micro-jolt guard of one axis
MicroJolt(c, magp, d, prev) ==
  LET tiny_r == c.micro_jolt_radius_norm
      micro_cap == Max(1, c.micro_slew_cap_pixels)
      d1 == MicroClamp(d, prev, micro_cap)
  IN  IF magp <= Max((2 * One) \div 100, tiny_r)
      THEN (IF c.dir_flip_guard THEN FlipGuard(d1, prev) ELSE d1)
      ELSE d

SlewCap(cap_dt) == Max(1, cap_dt \div 3)

\* a rounding that lets every delta through
JitterRoundOff(dx, dy, jitter_threshold) == <<dx, dy>>

\* jitter rounding of the pair
JitterRound(dx, dy, jitter_threshold) ==
  LET jt == Max(0, jitter_threshold)
  IN  IF 0 - jt <= dx /\ dx <= jt /\ 0 - jt <= dy /\ dy <= jt
      THEN <<0, 0>> ELSE <<dx, dy>>

\* inhibition that ignores the face buttons
InhibitNever(c, wButtons) == FALSE

\* inhibit = inhibit_mouse_when_buttons and (wButtons & XINPUT_FACE_MASK)
Inhibit(c, wButtons) ==
  c.inhibit_mouse_when_buttons /\ (wButtons \cap XINPUT_FACE_MASK) # {}

\* an idle settle that fires one idle tick late
IdleZeroLate(idle, idle_frames, frames_to_zero) ==
  idle /\ idle_frames >= frames_to_zero

\* idle settle: the idle tick that brings the counter to idle_frames_to_zero
IdleZero(idle, idle_frames, frames_to_zero) ==
  idle /\ idle_frames + 1 >= frames_to_zero

\* light decay of the previous delta: int(prev * 0.9)
DecayPrev(prev) == TDiv(prev * 9, 10)

\* --------------------------------------------------------- cover guard
\* a program in which the button table exists
ButtonNameToFlagPresent == TRUE

\* _BUTTON_NAME_TO_FLAG is read by the cover guard and defined nowhere in the
\* program: the lookup raises NameError, which the guard's except clause
\* turns into _cover_active = False.
ButtonNameToFlagDefined == FALSE

MsToClock(ms) == ms * (TicksPerSecond \div 1000)

CoverGuard(c, cover_until, wButtons, now_s) ==
  IF ~c.cover_guard_enabled \/ ~ButtonNameToFlagDefined
  THEN [cover_until |-> cover_until, cover_active |-> FALSE]
  ELSE LET pressed == c.cover_button \in wButtons
           u1 == IF pressed
                 THEN Max(cover_until, now_s + MsToClock(Max(0, c.cover_guard_ms)))
                 ELSE cover_until
           u2 == IF ~pressed /\ u1 < now_s
                 THEN Max(u1, now_s + MsToClock(Max(0, c.cover_release_ms)))
                 ELSE u1
       IN  [cover_until |-> u2, cover_active |-> now_s <= u2]

\* Cover+ decay clamp: a ceiling that decays over the window, and the yank
\* detector near the centre.  Yields the cap and the (possibly damped) pair.
CoverSnap(c, cover_active, cover_until, now_s, ads, magp, dx, dy, dx_prev, dy_prev, cap_dt) ==
  LET rem == Max(0, cover_until - now_s)
      decay == MsToClock(Max(1, c.cover_decay_ms))
      strength == Clamp(0, One, TDiv(rem * One, decay))
      gate_norm == Clamp(0, One, c.cover_gate_norm)
      snap_ceiling == Max(1, TDiv(c.cover_snap_max_px * (One \div 2 + TDiv(strength, 2)), One))
      cap1 == IF magp <= gate_norm THEN Min(cap_dt, snap_ceiling)
              ELSE Min(cap_dt, snap_ceiling + 2)
      jump == Abs(dx - dx_prev) + Abs(dy - dy_prev)
      damp == magp <= gate_norm /\ jump > snap_ceiling + 2
  IN  IF cover_active /\ ~(c.cover_ads_exempt /\ ads)
      THEN [cap_dt |-> cap1,
            dx |-> IF damp THEN TDiv(dx_prev + dx, 2) ELSE dx,
            dy |-> IF damp THEN TDiv(dy_prev + dy, 2) ELSE dy]
      ELSE [cap_dt |-> cap_dt, dx |-> dx, dy |-> dy]

\* Tighten caps under cover guard
CoverTighten(c, cover_active, cap_dt) ==
  IF cover_active THEN Max(1, cap_dt - c.cover_extra_clamp) ELSE cap_dt

\* ------------------------------------------------------ model inputs
\* the configuration the worker starts with, and the dictionaries
\* apply_config may be handed
Fast == [Config EXCEPT !.poll_hz = 1000, !.pixel_scale = 40 * One, !.smoothing_alpha = 95,
                       !.sens_ramp = One, !.softzone_k = One,
                       !.idle_frames_to_zero = 2]
Loose == [Fast EXCEPT !.inhibit_mouse_when_buttons = FALSE,
                      !.max_pixels_per_tick = 9, !.jitter_threshold = 2,
                      !.softzone_k = 2 * One, !.idle_frames_to_zero = 3]
BadPoll == [Fast EXCEPT !.poll_hz = NotANumber]
BadScale == [Fast EXCEPT !.pixel_scale = NotANumber]
InfScale == [Fast EXCEPT !.pixel_scale = NonFinite]

\* a high desired feel over a low in-game value, loose caps, the micro-jolt
\* radius at its smallest, the mouse not inhibited by buttons
Snap == [Fast EXCEPT !.game_slider_current = One,
                     !.desired_base_slider = 30 * One,
                     !.game_slider_max = 30 * One,
                     !.max_pixels_per_tick = One,
                     !.max_pixels_per_second = 200 * One,
                     !.micro_jolt_radius_norm = 2,
                     !.inhibit_mouse_when_buttons = FALSE]


\* the release threshold set above the engage threshold, each slider within
\* its own range
Inverted == [Fast EXCEPT !.engage_threshold_norm = 1,
                         !.release_threshold_norm = 5]

\* the range the UI gives the pixel scale: slider_row("Pixel scale", 4.0, 40.0)
PixelScaleMin == 4 * One
PixelScaleMax == 40 * One

\* a pixel scale above that range, as config.json or a profile may hold it
Wide == [Fast EXCEPT !.pixel_scale = 2 * PixelScaleMax]

\* the default ramp rate raised to a half, and the ramp rate at the bottom
\* of its range 0..1
Gradual == [Fast EXCEPT !.sens_ramp = One \div 2]
Frozen == [Fast EXCEPT !.sens_ramp = 0]

\* the target-window box of the UI cleared
Untitled == [Fast EXCEPT !.target_window_substring = ""]

\* an aim threshold below the hysteresis, and one within the hysteresis of
\* the largest trigger value, each slider within its own range
\* (threshold 0..255, hysteresis 0..50)
\* the default smoothing and the default soft-zone power
Damped == [Fast EXCEPT !.smoothing_alpha = Config.smoothing_alpha,
                       !.softzone_k = 180]

\* the smoothing slider at its lowest position, the soft-zone power at 1
Still == [Fast EXCEPT !.smoothing_alpha = 0]

LowThreshold == [Fast EXCEPT !.ads_trigger_threshold = 5]
HighThreshold == [Fast EXCEPT !.ads_trigger_threshold = 250]
InitialConfigs == {Fast, Snap, Inverted, Wide, Gradual, Frozen, Untitled,
                   Damped, LowThreshold, HighThreshold}
Profiles == {Loose, BadPoll, BadScale}

\* the Enabled box of the UI unticked
Disabled == [Fast EXCEPT !.enabled = FALSE]

\* an update naming two fields and a name the configuration does not have
PartialUpdate ==
  [smoothing_alpha |-> Config.smoothing_alpha, sens_ramp |-> One \div 2,
   not_a_field |-> 1]

\* asdict(cfg).items(): the dataclass fields in declaration order
FieldOrder ==
  << "target_window_substring",
     "enabled", "only_when_focused", "invert_y", "poll_hz", "use_correlation",
     "base_sens", "ads_sens", "game_slider_max", "game_slider_current",
     "desired_base_slider", "desired_ads_slider", "ads_trigger",
     "ads_trigger_threshold", "deadzone_right", "curve_exponent",
     "pixel_scale", "jitter_threshold", "smoothing_alpha", "sens_ramp",
     "max_pixels_per_tick", "max_pixels_per_second", "ads_hysteresis",
     "engage_threshold_norm", "release_threshold_norm", "softzone_k",
     "idle_epsilon", "idle_frames_to_zero", "inhibit_mouse_when_buttons",
     "micro_jolt_radius_norm", "micro_slew_cap_pixels", "dir_flip_guard",
     "cover_guard_enabled", "cover_button", "cover_guard_ms",
     "cover_release_ms", "cover_scale", "cover_extra_clamp",
     "cover_extra_slew", "cover_snap_max_px", "cover_gate_norm",
     "cover_decay_ms", "cover_ads_exempt" >>

\* the configuration fields an iteration reads: before its sleep, in the
\* three skip tests, up to the engagement gate, and after it
TopReads == {"poll_hz"}
SkipReads == {"enabled", "only_when_focused", "target_window_substring"}
HeadReads ==
  SkipReads \cup
  { "deadzone_right", "curve_exponent", "invert_y", "ads_trigger_threshold",
    "ads_trigger", "cover_guard_enabled", "cover_button", "ads_hysteresis",
    "use_correlation", "game_slider_current", "desired_base_slider",
    "desired_ads_slider", "game_slider_max", "sens_ramp", "smoothing_alpha",
    "softzone_k", "engage_threshold_norm", "release_threshold_norm" }
TailReads ==
  { "pixel_scale", "max_pixels_per_tick", "max_pixels_per_second",
    "micro_jolt_radius_norm", "micro_slew_cap_pixels", "dir_flip_guard",
    "jitter_threshold", "inhibit_mouse_when_buttons", "idle_epsilon",
    "idle_frames_to_zero" }

\* getattr(cfg, k, ...) for each k of fields, recorded over what was read
ReadInto(seen, c, fields) ==
  [k \in DOMAIN seen |-> IF k \in fields THEN c[k] ELSE seen[k]]

\* XInputGetState snapshots: right stick, left trigger, buttons held
Pad(x, y, lt, b) ==
  [connected |-> TRUE, sThumbRX |-> x, sThumbRY |-> y,
   bLeftTrigger |-> lt, bRightTrigger |-> 0, wButtons |-> b]

NoPad == [connected |-> FALSE, sThumbRX |-> 0, sThumbRY |-> 0,
          bLeftTrigger |-> 0, bRightTrigger |-> 0, wButtons |-> {}]

\* stick deflections and button holds, trigger released or pressed
PadsShape ==
  { NoPad,
    Pad(0, 0, 37, {}), Pad(0, 0, 54, {"A"}),
    Pad(AxisMax, 0, 37, {}), Pad(AxisMax, 0, 54, {"A"}),
    Pad(0 - AxisMax, AxisMax, 37, {}) }

\* raw axis pairs: at rest, on, just inside and just outside the deadzone
\* circles, midway between a deadzone and full deflection, at full
\* deflection, in the corners of the axis square, and the most negative
\* 16-bit value
StickPairs ==
  { <<0, 0>>, <<8689, 0>>, <<0, 0 - 8689>>, <<8690, 0>>, <<8688, 0>>,
    <<2760, 8239>>, <<0 - 8239, 2760>>, <<105, 1100>>, <<0 - 1100, 105>>,
    <<1105, 0>>, <<1106, 0>>, <<18000, 24000>>, <<0 - 24000, 18000>>,
    <<18000, 24001>>, <<30000, 0>>, <<30001, 0>>, <<20728, 0>>,
    <<0, 20728>>, <<14657, 0 - 14657>>, <<16384, 0>>, <<31384, 0>>,
    <<16936, 0>>, <<AxisMax, 0>>, <<0, AxisMax>>, <<0 - AxisMax, 0>>,
    <<AxisMax, 20000>>, <<AxisMax, AxisMax>>, <<0 - AxisMax - 1, 0>> }

\* deadzone radii: none, small, the XInput default, large
Deadzones == {0, 1105, XINPUT_GAMEPAD_RIGHT_THUMB_DEADZONE, 30000}

\* curve inputs and exponents (fixed point), exponents below 0.1 included
CurveValues == {0 - One, 0 - 50, 0 - 1, 0, 1, 50, One}
CurveExponents == {0, 5, 10, One, 130, 3 * One}

\* trigger values around the aim threshold and its hysteresis band
PadsAim ==
  { Pad(0, 0, 37, {}), Pad(AxisMax, 0, 37, {}), Pad(AxisMax, 0, 38, {}),
    Pad(AxisMax, 0, 53, {}), Pad(AxisMax, 0, 54, {}) }

\* a full deflection held, and let go
PadsCaps == { Pad(0, 0, 37, {}), Pad(AxisMax, 0, 37, {}) }

\* input while the UI applies a configuration
PadsUi == { Pad(0, 0, 37, {}), Pad(AxisMax, 0, 37, {}) }

\* the stick at rest, the trigger released or pressed past the aim band
PadsRamp == { Pad(0, 0, 37, {}), Pad(0, 0, 54, {}) }

\* the cover button held with the trigger released and the stick just
\* outside the deadzone
PadsGuard == { Pad(0, 0, 37, {}), Pad(AxisMax \div 3, 0, 37, {"A"}) }

\* a full deflection held
PadsHeld == { Pad(AxisMax, 0, 37, {}) }

\* a full deflection, and the stick at rest
PadsRest == { Pad(AxisMax, 0, 37, {}), Pad(0, 0, 37, {}) }

\* the stick at rest, the trigger released, half pressed or fully pressed
PadsTrigger == { Pad(0, 0, 0, {}), Pad(0, 0, 54, {}), Pad(0, 0, 255, {}) }

\* time a loop iteration takes beyond its sleep, in clock units: scheduling
\* jitter alone, or jitter and an occasional stall
Steady == {9}
Stalling == {9, 109}

\* The runs explored: the controller snapshots a run draws from, the
\* overruns of its iterations, the clock value it stops at, and the
\* configurations the UI may apply during it.
ShapeRun == [cfg0 |-> Fast, pads |-> PadsShape, overruns |-> Steady, max_now |-> MaxNowShape,
             profiles |-> {}, max_applies |-> 0, stages |-> {}]
AimRun == [cfg0 |-> Fast, pads |-> PadsAim, overruns |-> Steady, max_now |-> MaxNowAim,
           profiles |-> {}, max_applies |-> 0, stages |-> {}]
CapsRun == [cfg0 |-> Fast, pads |-> PadsCaps, overruns |-> Stalling, max_now |-> MaxNowCaps,
            profiles |-> {}, max_applies |-> 0, stages |-> {}]
UiRun == [cfg0 |-> Fast, pads |-> PadsUi, overruns |-> Steady, max_now |-> MaxNowUi,
          profiles |-> Profiles, max_applies |-> MaxApplies, stages |-> {}]
FaultRun == [cfg0 |-> Fast, pads |-> PadsUi, overruns |-> Steady, max_now |-> MaxNowFault,
             profiles |-> {InfScale}, max_applies |-> MaxApplies, stages |-> {}]
GuardRun == [cfg0 |-> Snap, pads |-> PadsGuard, overruns |-> Steady,
             max_now |-> MaxNowGuard, profiles |-> {}, max_applies |-> 0, stages |-> {}]
BandRun == [cfg0 |-> Inverted, pads |-> PadsCaps, overruns |-> Steady,
            max_now |-> MaxNowBand, profiles |-> {}, max_applies |-> 0, stages |-> {}]
RangeRun == [cfg0 |-> Wide, pads |-> PadsCaps, overruns |-> Steady,
             max_now |-> MaxNowRange, profiles |-> {}, max_applies |-> 0, stages |-> {}]
RampRun == [cfg0 |-> Gradual, pads |-> PadsRamp, overruns |-> Steady,
            max_now |-> MaxNowRamp, profiles |-> {}, max_applies |-> 0, stages |-> {}]
FrozenRun == [cfg0 |-> Frozen, pads |-> PadsRamp, overruns |-> Steady,
              max_now |-> MaxNowRamp, profiles |-> {}, max_applies |-> 0, stages |-> {}]
TitleRun == [cfg0 |-> Untitled, pads |-> PadsCaps, overruns |-> Steady,
             max_now |-> MaxNowBand, profiles |-> {}, max_applies |-> 0, stages |-> {}]
OverlayRun == [cfg0 |-> Fast, pads |-> PadsUi, overruns |-> Steady,
               max_now |-> MaxNowFault, profiles |-> {PartialUpdate},
               max_applies |-> MaxApplies, stages |-> {}]
HystRun == [cfg0 |-> LowThreshold, pads |-> PadsTrigger, overruns |-> Steady,
            max_now |-> MaxNowBand, profiles |-> {}, max_applies |-> 0, stages |-> {}]
CeilingRun == [cfg0 |-> HighThreshold, pads |-> PadsTrigger, overruns |-> Steady,
               max_now |-> MaxNowBand, profiles |-> {}, max_applies |-> 0, stages |-> {}]
PausedRun == [cfg0 |-> Fast, pads |-> PadsUi, overruns |-> Steady,
              max_now |-> MaxNowFault, profiles |-> {Disabled},
              max_applies |-> MaxApplies, stages |-> {}]
StillRun == [cfg0 |-> Fast, pads |-> PadsRest, overruns |-> Steady,
             max_now |-> MaxNowBand, profiles |-> {Still},
             max_applies |-> MaxApplies, stages |-> {}]
SoftRun == [cfg0 |-> Damped, pads |-> PadsHeld, overruns |-> Steady,
            max_now |-> MaxNowCaps, profiles |-> {}, max_applies |-> 0, stages |-> {}]
\* a slider that is not forwarded, then the ADS trigger combo box that is
StagedEdits ==
  { [key |-> "smoothing_alpha", value |-> Config.smoothing_alpha],
    [key |-> "ads_trigger", value |-> "RT"] }
StageRun == [cfg0 |-> Fast, pads |-> PadsHeld, overruns |-> Steady,
             max_now |-> MaxNowBand, profiles |-> {},
             max_applies |-> MaxApplies + 1, stages |-> StagedEdits]
Runs == {ShapeRun, AimRun, CapsRun, UiRun, FaultRun, GuardRun, BandRun,
         RangeRun, RampRun, FrozenRun, TitleRun, OverlayRun, HystRun,
         CeilingRun, SoftRun, PausedRun, StageRun}

\* ---------------------------------------------------------------- state
VARIABLES
  cfg,            \* InputWorker.cfg, the object apply_config writes into
  xinput,         \* whether an XInput DLL was loaded
  pc,             \* where InputWorker.run is
  now,            \* the loop's clock (time.perf_counter)
  w,              \* InputWorker's fields
  loc,            \* the locals of InputWorker.run
  applying,       \* the apply_config call in progress on the UI thread
  restart_queue,  \* hardRestart emissions queued for the worker's thread
  quit_req,       \* WorkerManager.stop has run
  applies,        \* history: how many apply_config calls the UI has made
  idle_run,       \* history: the current run of idle processed ticks
  scn,            \* the run explored (inputs and bounds), fixed by Init
  calc,           \* a call of a pure function: its arguments and its result
  staged_cfg,     \* MainWindow.staged_cfg, the configuration the widgets edit
  mgr             \* the worker threads started, their manager and the suite's toggles

vars == <<cfg, xinput, pc, now, w, loc, applying, restart_queue, quit_req, applies, idle_run, scn, calc,
          staged_cfg, mgr>>

\* no call of a pure function under examination
NoCall == [op |-> "none", x |-> 0, y |-> 0, dz |-> 0, out |-> <<0, 0>>,
           zero |-> FALSE, v |-> 0, e |-> 0, pos |-> 0, neg |-> 0,
           floored |-> 0]

\* self._ui_min_interval = 1.0 / 120.0, in clock units
UiMinInterval == TicksPerSecond \div 120
\* heartbeat when nothing was published for 0.5 s
HeartbeatInterval == TicksPerSecond \div 2
\* time.sleep(0.02) after a failed tick
FailSleep == TicksPerSecond \div 50

\* InputWorker.__init__
WorkerInit ==
  [ run |-> TRUE, accum_x |-> 0, accum_y |-> 0, ui_next |-> 0,
    f_nx |-> 0, f_ny |-> 0, sens_curr |-> 0, t_prev |-> 0, last_emit |-> 0,
    engaged |-> FALSE, idle_frames |-> 0, ads_prev |-> FALSE,
    dx_prev |-> 0, dy_prev |-> 0, nxp_prev |-> 0, nyp_prev |-> 0,
    cover_until |-> 0, cover_active |-> FALSE ]

LocInit ==
  [ tick |-> 0, dt |-> 0, lt |-> 0, rt |-> 0, wButtons |-> {}, trig |-> "LT",
    thr |-> 0, hyst |-> 0, ads |-> FALSE, sens_eff |-> 0, magp |-> 0,
    engage |-> 0, release |-> 0, dx |-> 0, dy |-> 0, cap_min |-> 0,
    cap_dt |-> 0, slew_cap |-> 0, inhibit |-> FALSE, sent |-> FALSE,
    emitted |-> "none", kind |-> "none",
    \* history: the foreground title and the controller state the tick saw
    title |-> "", connected |-> FALSE,
    \* history: the previous delta the guards compared with and the integer
    \* parts the tick truncated from the accumulators
    dx_before |-> 0, dy_before |-> 0, dx_int |-> 0, dy_int |-> 0,
    \* history: since the accumulators were last zeroed, the sums of the
    \* integer parts truncated and of the continuous displacements added
    sum_int_x |-> 0, sum_int_y |-> 0, sum_f_x |-> 0, sum_f_y |-> 0,
    \* history: the idle-frame counter the tick started from and the number
    \* of processed ticks in a row, this one included, that were idle
    idle_before |-> 0, idle_ticks |-> 0,
    \* history: the number of processed ticks in a row, this one included,
    \* that saw the stick fully deflected to the right, up to SettleTicks
    full_ticks |-> 0,
    \* history: the stick position the tick saw, and the time of the last
    \* tick that saw the cover button held (a second before the start: never)
    sThumbRX |-> 0, sThumbRY |-> 0, pressed_at |-> 0 - TicksPerSecond,
    \* history: the gate and aim-mode the tick started from, whether a
    \* restart was queued when the iteration began, and the configuration
    \* values the iteration has read
    engaged_before |-> FALSE, ads_before |-> FALSE, pending |-> FALSE,
    cfg_read |-> Fast ]

\* the threads one process may start, one after another
ThreadIds == 1..MaxStarts

\* outside the specifications of the lifecycle the threads are not followed:
\* pc and quit_req follow the one loop main() starts
NoManager ==
  [manager |-> FALSE, worker |-> 0, loops |-> [i \in ThreadIds |-> "unborn"],
   toggle |-> FALSE, act_irx |-> FALSE, crashed |-> FALSE]

Init ==
  /\ scn \in Runs
  /\ cfg \in InitialConfigs /\ cfg = scn.cfg0
  /\ xinput \in BOOLEAN
  /\ pc = IF xinput THEN "top" ELSE "idle"
  /\ now = 0
  /\ w = WorkerInit
  /\ loc = LocInit
  /\ applying = <<>>
  /\ restart_queue = 0
  /\ quit_req = FALSE
  /\ applies = 0
  /\ idle_run = [len |-> 0, n |-> 0]
  /\ calc = NoCall
  /\ staged_cfg = scn.cfg0
  /\ mgr = NoManager

\* SafeQObjectRef.isNull of the bus: main() and InputRXSubTab keep the bus
\* referenced for the life of the process
BusIsNull == FALSE

\* ------------------------------------------------------- InputWorker.run
\* a loop that publishes on every tick
ThrottledAlways(wk, t) == TRUE

\* if now >= self._ui_next: the UI refresh gate of every branch of a tick
Throttled(wk, t) == t >= wk.ui_next

\* a skipped tick that also clears the filter state and the previous delta
SkipPublishClearing(wk, t) ==
  [wk EXCEPT !.t_prev = t, !.f_nx = 0, !.f_ny = 0, !.dx_prev = 0, !.dy_prev = 0]

\* the zero tuple published by a tick that does not process input
\* (disabled, unfocused or no controller): throttle, then heartbeat
SkipPublish(wk, t) ==
  LET throttled == Throttled(wk, t)
      heartbeat == ~throttled /\ (t - wk.last_emit) > HeartbeatInterval
  IN  [wk EXCEPT !.t_prev = t,
                 !.ui_next = IF throttled THEN t + UiMinInterval ELSE @,
                 !.last_emit = IF throttled \/ heartbeat THEN t ELSE @]

SkipEmitted(wk, t) ==
  IF Throttled(wk, t) THEN "zero"
  ELSE IF (t - wk.last_emit) > HeartbeatInterval THEN "heartbeat" ELSE "none"

\* what get_foreground_title returns: the title of the foreground window,
\* here the game's, or "" when there is none or the query raised
ForegroundTitles == {"Gears of War: Reloaded", ""}

\* str.lower, on the strings explored
Lower(str) ==
  IF str = "Gears of War: Reloaded" THEN "gears of war: reloaded" ELSE str

\* sub in title, on the strings explored: the empty string is in every
\* string, a non-empty one is in a title equal to it and not in ""
Contains(sub, title) == sub = "" \/ sub = title

\* not (target_window_substring.lower() not in get_foreground_title().lower())
Focused(c, title) == Contains(Lower(c.target_window_substring), Lower(title))

\* a tick that goes on without a controller
SkippedUnlessAbsent(c, title, gp) ==
  \/ ~c.enabled
  \/ (c.only_when_focused /\ ~Focused(c, title))

\* the three early `continue` branches of a tick
Skipped(c, title, gp) ==
  \/ ~c.enabled
  \/ (c.only_when_focused /\ ~Focused(c, title))
  \/ ~gp.connected

\* inputs -> normalized, curved, smoothed; aim-mode; sensitivity; gate
HeadFields(wk, c, gp, t) ==
  LET n_raw == normalize_right_stick(gp.sThumbRX, gp.sThumbRY, c.deadzone_right)
      nx == apply_curve(n_raw[1], c.curve_exponent)
      ny0 == apply_curve(n_raw[2], c.curve_exponent)
      ny == IF c.invert_y THEN 0 - ny0 ELSE ny0
      thr == Clamp(0, 255, c.ads_trigger_threshold)
      cov == CoverGuard(c, wk.cover_until, gp.wButtons, t)
      hyst == Max(0, c.ads_hysteresis)
      ads == AdsUpdate(wk.ads_prev,
                       TrigValue(c.ads_trigger, gp.bLeftTrigger, gp.bRightTrigger),
                       thr, hyst)
      sens_curr == Ramp(wk.sens_curr, SensTarget(c, ads), c.sens_ramp)
      sens_eff == IF cov.cover_active
                  THEN FMul(sens_curr, Clamp(One \div 2, One, c.cover_scale))
                  ELSE sens_curr
      sz == SoftZone(LowPass(wk.f_nx, nx, c.smoothing_alpha),
                     LowPass(wk.f_ny, ny, c.smoothing_alpha), c.softzone_k)
      engage == EngageThreshold(c)
      release == ReleaseThreshold(c)
  IN  [ thr |-> thr, hyst |-> hyst, ads |-> ads, sens_curr |-> sens_curr,
        sens_eff |-> sens_eff, f_nx |-> sz.f_nx, f_ny |-> sz.f_ny,
        magp |-> sz.magp, engage |-> engage, release |-> release,
        engaged |-> GateUpdate(wk.engaged, sz.magp, engage, release),
        cover_until |-> cov.cover_until, cover_active |-> cov.cover_active ]

\* InputWorker.stop: self._run = False
stop(wk) == [wk EXCEPT !.run = FALSE]

\* a loop that never looks at the cancellation flag
LoopConditionAlways(wk) == TRUE

\* while self._run: the check both loops of run() make once per iteration
LoopCondition(wk) == wk.run

\* while self._run: ... cfg = self.cfg; tick = 1.0 / max(60, int(poll_hz))
\* A poll_hz that int() rejects raises outside the tick's own try block: the
\* outer handler logs "Worker thread crashed" and run() returns.
TickTop ==
  /\ pc = "top" /\ LoopCondition(w) /\ ~BusIsNull
  /\ IF cfg.poll_hz = NotANumber
     THEN pc' = "crashed" /\ UNCHANGED loc
     ELSE /\ pc' = "slept"
          /\ loc' = [loc EXCEPT !.tick = PollTick(cfg.poll_hz),
                                !.pending = restart_queue > 0,
                                !.cfg_read = ReadInto(@, cfg, TopReads)]
  /\ UNCHANGED <<cfg, xinput, now, w, applying, restart_queue, quit_req, applies, idle_run, scn, calc, staged_cfg, mgr>>

\* the loop condition fails: run() returns
LoopReturn ==
  /\ pc \in {"top", "idle"} /\ ~LoopCondition(w)
  /\ pc' = "returned"
  /\ UNCHANGED <<cfg, xinput, now, w, loc, applying, restart_queue, quit_req, applies, idle_run, scn, calc, staged_cfg, mgr>>

\* ticks of a held deflection after which a one-pole filter with the
\* default smoothing has covered more than 0.96 of the step
SettleTicks == 3 * 4

\* no XInput DLL: while self._run: time.sleep(0.25)
IdleSleep ==
  /\ pc = "idle" /\ LoopCondition(w)
  /\ UNCHANGED vars

\* wake from the sleep, read the clock, gate the tick, and process the
\* inputs up to the engagement gate
TickHead ==
  /\ pc = "slept"
  /\ \E overrun \in scn.overruns, title \in ForegroundTitles, gp \in scn.pads :
       \E t \in {now + loc.tick + overrun} :
       \E h \in {HeadFields(w, cfg, gp, t)} :
           /\ t <= scn.max_now
           /\ now' = t
           /\ IF Skipped(cfg, title, gp)
              THEN /\ w' = SkipPublish(w, t)
                   /\ loc' = [loc EXCEPT !.dt = ClampDt(t - w.t_prev),
                                         !.emitted = SkipEmitted(w, t),
                                         !.sent = FALSE,
                                         !.kind = "skipped",
                                         !.title = title,
                                         !.connected = gp.connected,
                                         !.cfg_read = ReadInto(@, cfg, SkipReads)]
                   /\ pc' = "top"
              ELSE /\ w' = [w EXCEPT !.t_prev = t,
                                     !.cover_until = h.cover_until,
                                     !.cover_active = h.cover_active,
                                     !.ads_prev = h.ads,
                                     !.sens_curr = h.sens_curr,
                                     !.f_nx = h.f_nx, !.f_ny = h.f_ny,
                                     !.engaged = h.engaged]
                   /\ loc' = [loc EXCEPT !.dt = ClampDt(t - w.t_prev),
                                         !.lt = gp.bLeftTrigger,
                                         !.rt = gp.bRightTrigger,
                                         !.wButtons = gp.wButtons,
                                         !.title = title,
                                         !.connected = gp.connected,
                                         !.trig = cfg.ads_trigger,
                                         !.thr = h.thr, !.hyst = h.hyst,
                                         !.ads = h.ads,
                                         !.sens_eff = h.sens_eff,
                                         !.magp = h.magp,
                                         !.pressed_at =
                                            IF cfg.cover_button \in gp.wButtons
                                            THEN t ELSE @,
                                         !.sThumbRX = gp.sThumbRX,
                                         !.sThumbRY = gp.sThumbRY,
                                         !.full_ticks =
                                            IF gp.sThumbRX = AxisMax /\ gp.sThumbRY = 0
                                            THEN Min(@ + 1, SettleTicks) ELSE 0,
                                         !.engage = h.engage,
                                         !.release = h.release,
                                         !.engaged_before = w.engaged,
                                         !.ads_before = w.ads_prev,
                                         !.cfg_read = ReadInto(@, cfg, HeadReads)]
                   /\ pc' = "gated"
  /\ UNCHANGED <<cfg, xinput, applying, restart_queue, quit_req, applies, idle_run, scn, calc, staged_cfg, mgr>>

\* a previous-delta record that only takes deltas of an Engaged gate
RecordPrevWhenEngaged(wk, prev, d, moved, idle) ==
  IF moved /\ wk.engaged THEN d ELSE IF idle THEN prev ELSE DecayPrev(prev)

\* the previous-delta record: decayed on a tick that is not idle, then
\* replaced by a delta that is not (0,0)
RecordPrev(wk, prev, d, moved, idle) ==
  IF moved THEN d ELSE IF idle THEN prev ELSE DecayPrev(prev)

\* a counter that a tick which is not idle leaves as it is
IdleFramesKept(n, idle, zero) == IF zero THEN 0 ELSE IF idle THEN n + 1 ELSE n

\* self._idle_frames += 1, and = 0 on the hard zero or when not idle
IdleFrames(n, idle, zero) == IF ~idle \/ zero THEN 0 ELSE n + 1

\* a truncation that drops the remainder
CarryDropped(a, d) == 0

\* self._accum_x -= dx
Carry(a, d) == a - d * One

\* float(getattr(cfg, 'pixel_scale', 12.0)), as the scaling step uses it
PixelScale(c) == c.pixel_scale

\* mouse scaling, caps, guard stack, jitter rounding, idle settle, dispatch
TailFields(wk, c, l, t) ==
  LET scale == FMul(PixelScale(c), l.sens_eff)
      ax == wk.accum_x + FMul(wk.f_nx, scale)
      ay == wk.accum_y + (0 - FMul(wk.f_ny, scale))
      dx0 == ToInt(ax)
      dy0 == ToInt(ay)
      cap0 == CapDt(c, l.dt)
      cs == CoverSnap(c, wk.cover_active, wk.cover_until, t, l.ads, l.magp,
                      dx0, dy0, wk.dx_prev, wk.dy_prev, cap0)
      cap1 == CoverTighten(c, wk.cover_active, cs.cap_dt)
      slew_cap == SlewCap(cap1)
      dx4 == SlewLimit(MicroJolt(c, l.magp, ClampAbs(cs.dx, cap1), wk.dx_prev),
                       wk.dx_prev, slew_cap)
      dy4 == SlewLimit(MicroJolt(c, l.magp, ClampAbs(cs.dy, cap1), wk.dy_prev),
                       wk.dy_prev, slew_cap)
      jr == JitterRound(dx4, dy4, c.jitter_threshold)
      dx == jr[1]
      dy == jr[2]
      inhibit == Inhibit(c, l.wButtons)
      idle == l.magp < c.idle_epsilon /\ dx = 0 /\ dy = 0
      zero == IdleZero(idle, wk.idle_frames, c.idle_frames_to_zero)
      moved == dx # 0 \/ dy # 0
      f_nx == IF zero THEN 0 ELSE wk.f_nx
      f_ny == IF zero THEN 0 ELSE wk.f_ny
      throttled == Throttled(wk, t)
      heartbeat == ~throttled /\ (t - wk.last_emit) > HeartbeatInterval
  IN  [ dx |-> dx, dy |-> dy, dx_int |-> dx0, dy_int |-> dy0,
        dx_f |-> FMul(wk.f_nx, scale), dy_f |-> 0 - FMul(wk.f_ny, scale),
        zero |-> zero,
        cap_min |-> cap0, cap_dt |-> cap1,
        slew_cap |-> slew_cap, inhibit |-> inhibit, idle |-> idle,
        sent |-> moved /\ wk.engaged /\ ~inhibit,
        emitted |-> IF throttled THEN "sample"
                    ELSE IF heartbeat THEN "heartbeat" ELSE "none",
        w |-> [wk EXCEPT
                 !.accum_x = IF zero THEN 0 ELSE Carry(ax, dx0),
                 !.accum_y = IF zero THEN 0 ELSE Carry(ay, dy0),
                 !.f_nx = f_nx, !.f_ny = f_ny,
                 !.idle_frames = IdleFrames(@, idle, zero),
                 !.dx_prev = RecordPrev(wk, @, dx, moved, idle),
                 !.dy_prev = RecordPrev(wk, @, dy, moved, idle),
                 !.nxp_prev = f_nx, !.nyp_prev = f_ny,
                 !.ui_next = IF throttled THEN t + UiMinInterval ELSE @,
                 !.last_emit = IF throttled \/ heartbeat THEN t ELSE @] ]

\* history of the current idle run: its length and the idle_frames_to_zero
\* it started under (len = -1 once the value changed inside the run)
IdleRunNext(r, idle, n) ==
  IF ~idle THEN [len |-> 0, n |-> 0]
  ELSE IF r.len = 0 THEN [len |-> 1, n |-> n]
  ELSE IF r.len > 0 /\ r.n = n THEN [len |-> r.len + 1, n |-> n]
  ELSE [len |-> 0 - 1, n |-> r.n]

\* self._accum_x += dx_f; self._accum_y += dy_f with a scale or an
\* accumulator that is not finite: both sums are inf or nan
AccumNonFinite(wk, c) ==
  c.pixel_scale = NonFinite \/ wk.accum_x = NonFinite \/ wk.accum_y = NonFinite

\* the rest of the tick.  A pixel_scale that float() rejects raises inside
\* the tick's try block: the tick is abandoned after time.sleep(0.02).  So
\* does int() of an accumulator that is not finite, after both accumulators
\* were updated.
TickTail ==
  /\ pc = "gated"
  /\ pc' = "top"
  /\ IF cfg.pixel_scale = NotANumber
     THEN /\ now' = now + FailSleep
          /\ loc' = [loc EXCEPT !.kind = "abandoned", !.sent = FALSE,
                                !.emitted = "none"]
          /\ UNCHANGED <<w, idle_run>>
     ELSE IF AccumNonFinite(w, cfg)
     THEN /\ now' = now + FailSleep
          /\ loc' = [loc EXCEPT !.kind = "abandoned", !.sent = FALSE,
                                !.emitted = "none"]
          /\ w' = [w EXCEPT !.accum_x = NonFinite, !.accum_y = NonFinite]
          /\ UNCHANGED idle_run
     ELSE \E r \in {TailFields(w, cfg, loc, now)} :
              /\ w' = r.w
              /\ loc' = [loc EXCEPT !.dx = r.dx, !.dy = r.dy,
                                    !.cap_min = r.cap_min, !.cap_dt = r.cap_dt,
                                    !.slew_cap = r.slew_cap,
                                    !.inhibit = r.inhibit, !.sent = r.sent,
                                    !.emitted = r.emitted,
                                    !.kind = "processed",
                                    !.dx_before = w.dx_prev,
                                    !.dy_before = w.dy_prev,
                                    !.dx_int = r.dx_int, !.dy_int = r.dy_int,
                                    !.idle_before = w.idle_frames,
                                    !.idle_ticks = IF r.idle THEN @ + 1 ELSE 0,
                                    !.sum_int_x = IF r.zero THEN 0 ELSE @ + r.dx_int,
                                    !.sum_int_y = IF r.zero THEN 0 ELSE @ + r.dy_int,
                                    !.sum_f_x = IF r.zero THEN 0 ELSE @ + r.dx_f,
                                    !.sum_f_y = IF r.zero THEN 0 ELSE @ + r.dy_f,
                                    !.cfg_read = ReadInto(@, cfg, TailReads)]
              /\ idle_run' = IdleRunNext(idle_run, r.idle, cfg.idle_frames_to_zero)
              /\ UNCHANGED now
  /\ UNCHANGED <<cfg, xinput, applying, restart_queue, quit_req, applies, scn, calc, staged_cfg, mgr>>

\* ------------------------------------------------------------ UI thread
\* the next field apply_config's loop writes: the first, in items() order,
\* that the update names (a name the configuration does not have fails
\* hasattr and is passed over) and whose value differs (writing an equal
\* value changes nothing)
NextField(c, target) ==
  LET idx == {i \in 1..Len(FieldOrder) :
                /\ FieldOrder[i] \in DOMAIN target
                /\ c[FieldOrder[i]] # target[FieldOrder[i]]}
  IN  IF idx = {} THEN 0 ELSE CHOOSE i \in idx : \A j \in idx : i <= j

\* an assignment that rebuilds the configuration from the field defaults
AssignOverDefaults(c, k, v) == [Config EXCEPT ![k] = v]

\* setattr(self.cfg, k, v)
Assign(c, k, v) == [c EXCEPT ![k] = v]

\* replace(self.staged_cfg) after the widgets staged an update: a configuration with the fields an update names replaced by the
\* update's values, the names it does not have left out
Overlay(c, u) == [k \in DOMAIN c |-> IF k \in DOMAIN u THEN u[k] ELSE c[k]]

\* MainWindow._apply / _on_load_profile (restart) and the live apply of
\* MainWindow._stage (no restart): applyConfig.emit calls
\* WorkerManager.apply_to_worker -> InputWorker.apply_config on the UI thread
UiApply ==
  /\ applying = <<>> /\ ~quit_req /\ applies < scn.max_applies
  /\ applies' = applies + 1
  /\ \E target \in scn.profiles, restart \in BOOLEAN :
       /\ restart => restart_queue < MaxRestartQueue
       /\ applying' = << [target |-> target, restart |-> restart,
                           before |-> cfg, stage |-> ""] >>
       /\ staged_cfg' = Overlay(staged_cfg, target)
  /\ UNCHANGED <<cfg, xinput, pc, now, w, loc, restart_queue, quit_req, idle_run, scn, calc, mgr>>

\* the fields _stage forwards to the worker at once
LiveKeys ==
  {"use_correlation", "game_slider_current", "desired_base_slider",
   "desired_ads_slider", "game_slider_max", "ads_trigger"}

\* MainWindow._stage(key, value), called by a widget's change signal:
\* setattr(self.staged_cfg, key, value), and for a live key
\* applyConfig.emit(vars(self.staged_cfg)), the whole staged configuration
UiStage ==
  /\ applying = <<>> /\ ~quit_req /\ applies < scn.max_applies
  /\ applies' = applies + 1
  /\ \E e \in scn.stages :
       /\ staged_cfg' = Assign(staged_cfg, e.key, e.value)
       /\ applying' = IF e.key \in LiveKeys
                      THEN << [target |-> staged_cfg', restart |-> FALSE,
                               before |-> cfg, stage |-> e.key] >>
                      ELSE applying
  /\ UNCHANGED <<cfg, xinput, pc, now, w, loc, restart_queue, quit_req, idle_run, scn, calc, mgr>>

\* for k, v in items: if hasattr(self.cfg, k): setattr(self.cfg, k, v)
ApplyField ==
  /\ applying # <<>>
  /\ NextField(cfg, applying[1].target) # 0
  /\ LET k == FieldOrder[NextField(cfg, applying[1].target)]
     IN  cfg' = Assign(cfg, k, applying[1].target[k])
  /\ UNCHANGED <<xinput, pc, now, w, loc, applying, restart_queue, quit_req, applies, idle_run, scn, calc, staged_cfg, mgr>>

\* apply_config returns; _apply then emits hardRestart, which the queued
\* connection posts to the worker's thread
ApplyDone ==
  /\ applying # <<>>
  /\ NextField(cfg, applying[1].target) = 0
  /\ applying' = <<>>
  /\ restart_queue' = IF applying[1].restart THEN restart_queue + 1 ELSE restart_queue
  /\ UNCHANGED <<cfg, xinput, pc, now, w, loc, quit_req, applies, idle_run, scn, calc, staged_cfg, mgr>>

\* the worker thread's event loop dispatches queued slots only while no slot
\* is executing: run() is itself the slot started by QThread.started
EventLoopDispatching == pc \in {"returned", "crashed"} /\ ~quit_req

\* a restart that also clears the gate, the idle counter, the aim-mode and
\* the cover deadline
pulse_restart_all(wk) ==
  [wk EXCEPT !.accum_x = 0, !.accum_y = 0, !.f_nx = 0, !.f_ny = 0,
             !.sens_curr = 0, !.dx_prev = 0, !.dy_prev = 0,
             !.nxp_prev = 0, !.nyp_prev = 0,
             !.engaged = FALSE, !.idle_frames = 0, !.ads_prev = FALSE,
             !.cover_until = 0]

\* InputWorker.pulse_restart: the fields it assigns
pulse_restart(wk) ==
  [wk EXCEPT !.accum_x = 0, !.accum_y = 0, !.f_nx = 0, !.f_ny = 0,
             !.sens_curr = 0, !.dx_prev = 0, !.dy_prev = 0,
             !.nxp_prev = 0, !.nyp_prev = 0]

\* the queued hardRestart, delivered by the worker thread's event loop
PulseRestart ==
  /\ restart_queue > 0
  /\ EventLoopDispatching
  /\ restart_queue' = restart_queue - 1
  /\ w' = pulse_restart(w)
  /\ loc' = [loc EXCEPT !.sum_int_x = 0, !.sum_int_y = 0,
                        !.sum_f_x = 0, !.sum_f_y = 0]
  /\ UNCHANGED <<cfg, xinput, pc, now, applying, quit_req, applies, idle_run, scn, calc, staged_cfg, mgr>>

\* WorkerManager.stop: worker.stop(); thread.quit(); thread.wait(2000)
ManagerStop ==
  /\ applying = <<>> /\ ~quit_req
  /\ w' = stop(w)
  /\ quit_req' = TRUE
  /\ UNCHANGED <<cfg, xinput, pc, now, loc, applying, restart_queue, applies, idle_run, scn, calc, staged_cfg, mgr>>

Next ==
  \/ TickTop
  \/ LoopReturn
  \/ IdleSleep
  \/ TickHead
  \/ TickTail
  \/ UiApply
  \/ UiStage
  \/ ApplyField
  \/ ApplyDone
  \/ PulseRestart
  \/ ManagerStop

Spec == Init /\ [][Next]_vars

\* ------------------------------------------------- the pure functions
\* The module-level functions called on their own, the worker not running.
InitMath ==
  /\ scn = ShapeRun
  /\ cfg = scn.cfg0
  /\ xinput = FALSE
  /\ pc = "idle"
  /\ now = 0
  /\ w = WorkerInit
  /\ loc = LocInit
  /\ applying = <<>>
  /\ restart_queue = 0
  /\ quit_req = FALSE
  /\ applies = 0
  /\ idle_run = [len |-> 0, n |-> 0]
  /\ staged_cfg = scn.cfg0
  /\ mgr = NoManager
  /\ \/ \E p \in StickPairs, d \in Deadzones :
          calc = [NoCall EXCEPT !.op = "stick", !.x = p[1], !.y = p[2],
                                !.dz = d]
     \/ \E v \in CurveValues, e \in CurveExponents :
          calc = [NoCall EXCEPT !.op = "value", !.v = v, !.e = e]

\* normalize_right_stick(x, y, dz); zero records that the result is the
\* pair of the deadzone branch, outside of which it is not exactly (0, 0)
Normalize ==
  /\ calc.op = "stick"
  /\ calc' = [calc EXCEPT !.op = "normalized",
                          !.out = normalize_right_stick(calc.x, calc.y, calc.dz),
                          !.zero = InDeadzone(calc.x, calc.y, calc.dz)]
  /\ UNCHANGED <<cfg, xinput, pc, now, w, loc, applying, restart_queue,
                 quit_req, applies, idle_run, scn, staged_cfg, mgr>>

\* apply_curve(v, e), apply_curve(-v, e) and apply_curve(v, 0.1)
Curve ==
  /\ calc.op = "value"
  /\ calc' = [calc EXCEPT !.op = "curved",
                          !.pos = apply_curve(calc.v, calc.e),
                          !.neg = apply_curve(0 - calc.v, calc.e),
                          !.floored = apply_curve(calc.v, One \div 10)]
  /\ UNCHANGED <<cfg, xinput, pc, now, w, loc, applying, restart_queue,
                 quit_req, applies, idle_run, scn, staged_cfg, mgr>>

NextMath == Normalize \/ Curve

SpecMath == InitMath /\ [][NextMath]_vars

\* ------------------------------------------------- the loop without end
\* The loop of run() going on for ever, the stick held or at rest.  The
\* program uses the clock only through differences, so the clock and the
\* times the worker keeps are counted from the start of the iteration.
InitRest ==
  /\ scn = StillRun
  /\ cfg = scn.cfg0
  /\ xinput = TRUE
  /\ pc = "top"
  /\ now = 0
  /\ w = WorkerInit
  /\ loc = LocInit
  /\ applying = <<>>
  /\ restart_queue = 0
  /\ quit_req = FALSE
  /\ applies = 0
  /\ idle_run = [len |-> 0, n |-> 0]
  /\ calc = NoCall
  /\ staged_cfg = scn.cfg0
  /\ mgr = NoManager

\* the top of an iteration, the clock counted from there
RestTop == now = 0 /\ TickTop

\* the end of an iteration: the times the worker keeps are counted from the
\* next iteration's start (a time in the past stays in the past), and the
\* histories that count over the whole run start again
Rebase ==
  /\ pc = "top" /\ now > 0
  /\ now' = 0
  /\ w' = [w EXCEPT !.t_prev = @ - now,
                    !.ui_next = Max(@ - now, 0),
                    !.last_emit = Max(@ - now, 0 - HeartbeatInterval),
                    !.cover_until = Max(@ - now, 0)]
  /\ loc' = [loc EXCEPT !.sum_int_x = 0, !.sum_int_y = 0,
                        !.sum_f_x = 0, !.sum_f_y = 0,
                        !.idle_ticks = 0, !.full_ticks = 0]
  /\ idle_run' = [len |-> 0, n |-> 0]
  /\ UNCHANGED <<cfg, xinput, pc, applying, restart_queue, quit_req, applies, scn, calc, staged_cfg, mgr>>

NextRest ==
  \/ RestTop
  \/ TickHead
  \/ TickTail
  \/ Rebase
  \/ UiApply
  \/ ApplyField
  \/ ApplyDone

\* the loop keeps going round: an iteration that has ended is followed by
\* the next one
SpecRest ==
  InitRest /\ [][NextRest]_vars /\ WF_vars(RestTop) /\ WF_vars(Rebase)

\* ------------------------------------------------ threads and toggles
\* Each thread WorkerManager.start launches is followed by the state of its
\* loop alone: "running" (self._run is True), "cancelled" (stop() has cleared
\* self._run and the loop is inside an iteration, before the dispatch or
\* after it), "finished" (run() has returned and the thread has quit).
Started(m) == {i \in ThreadIds : m.loops[i] # "unborn"}
Alive(m) == {i \in ThreadIds : m.loops[i] \in {"running", "cancelled"}}

\* The last Python reference to a QThread goes away while its thread runs.
\* Qt documents a crash for the destruction of a running QThread (qFatal:
\* "Destroyed while thread is still running"); when the wrapper's destruction
\* does not reach the C++ object, the thread runs on with nothing left to
\* stop it.
Outcomes == {"crash", "leak"}

DropThread(m, i, o) ==
  IF m.loops[i] \in {"running", "cancelled"} /\ o = "crash"
  THEN [m EXCEPT !.crashed = TRUE,
                 !.loops = [j \in ThreadIds |->
                              IF m.loops[j] = "unborn" THEN "unborn" ELSE "finished"]]
  ELSE m

\* WorkerManager.start: no test of self._worker; th.start() and then
\* self._worker, self._thread = worker, th, which drops the thread held before
WorkerManager_start(m, o) ==
  LET n == Cardinality(Started(m)) + 1
      launched == [m EXCEPT !.loops[n] = "running"]
      dropped == IF m.worker = 0 THEN launched ELSE DropThread(launched, m.worker, o)
  IN  IF dropped.crashed THEN dropped ELSE [dropped EXCEPT !.worker = n]

\* WorkerManager.stop: returns at once without a worker; otherwise
\* worker.stop(), thread.quit(), thread.wait(2000) (in_time: the loop reached
\* its condition within the two seconds), deleteLater, and in the finally
\* clause both references are cleared whatever the wait returned
WorkerManager_stop(m, in_time, o) ==
  IF m.worker = 0 THEN m
  ELSE LET i == m.worker
           flagged == [m EXCEPT !.loops[i] = IF @ = "running" THEN "cancelled" ELSE @]
           waited == IF in_time THEN [flagged EXCEPT !.loops[i] = "finished"] ELSE flagged
           dropped == DropThread(waited, i, o)
       IN  IF dropped.crashed THEN dropped ELSE [dropped EXCEPT !.worker = 0]

\* InputRXSubTab._on_toggled(checked): a new WorkerManager is created and
\* started only when self.manager is None (ok: neither the constructor nor
\* start() raises; otherwise the button is unchecked again, which re-enters
\* the handler with checked False and no manager); unchecking stops the
\* manager, if any, and forgets it
on_toggled(m, checked, ok, in_time, o) ==
  IF checked
  THEN IF m.manager THEN m
       ELSE IF ok THEN WorkerManager_start([m EXCEPT !.manager = TRUE, !.worker = 0], o)
            ELSE [m EXCEPT !.manager = FALSE, !.toggle = FALSE]
  ELSE LET stopped == IF m.manager THEN WorkerManager_stop(m, in_time, o) ELSE m
       IN  [stopped EXCEPT !.manager = FALSE]

\* _SuiteAddons._toggle_inputrx(running): the tab's button is set to the
\* action's state between blockSignals(True) and blockSignals(False), so its
\* toggled signal, and with it _on_toggled, does not run
toggle_inputrx(m, running) ==
  IF m.toggle # running THEN [m EXCEPT !.toggle = running] ELSE m

\* the lifecycle actions touch the threads and toggles only
LoopFrame ==
  UNCHANGED <<cfg, xinput, pc, now, w, loc, applying, restart_queue, quit_req,
              applies, idle_run, scn, calc, staged_cfg>>

\* a caller of WorkerManager.start
MgrStart ==
  /\ ~mgr.crashed /\ Cardinality(Started(mgr)) < MaxStarts
  /\ \E o \in Outcomes : mgr' = WorkerManager_start(mgr, o)
  /\ LoopFrame

\* a caller of WorkerManager.stop
MgrStop ==
  /\ ~mgr.crashed
  /\ \E in_time \in BOOLEAN, o \in Outcomes : mgr' = WorkerManager_stop(mgr, in_time, o)
  /\ LoopFrame

\* a cancelled loop reaches while self._run and run() returns
LoopExit ==
  /\ ~mgr.crashed
  /\ \E i \in ThreadIds :
       /\ mgr.loops[i] = "cancelled"
       /\ mgr' = [mgr EXCEPT !.loops[i] = "finished"]
  /\ LoopFrame

\* the user clicks the tab's button: toggled(checked) -> _on_toggled
TabToggle ==
  /\ ~mgr.crashed
  /\ LET clicked == [mgr EXCEPT !.toggle = ~@]
     IN  /\ (clicked.toggle /\ ~clicked.manager) => Cardinality(Started(mgr)) < MaxStarts
         /\ \E ok \in BOOLEAN, in_time \in BOOLEAN, o \in Outcomes :
              mgr' = on_toggled(clicked, clicked.toggle, ok, in_time, o)
  /\ LoopFrame

\* the user clicks the tray or menu action: toggled -> _toggle_inputrx
TrayToggle ==
  /\ ~mgr.crashed
  /\ LET clicked == [mgr EXCEPT !.act_irx = ~@]
     IN  mgr' = toggle_inputrx(clicked, clicked.act_irx)
  /\ LoopFrame

\* a WorkerManager just constructed: self._worker and self._thread are None
InitManager ==
  /\ scn = ShapeRun
  /\ cfg = scn.cfg0
  /\ xinput = FALSE
  /\ pc = "idle"
  /\ now = 0
  /\ w = WorkerInit
  /\ loc = LocInit
  /\ applying = <<>>
  /\ restart_queue = 0
  /\ quit_req = FALSE
  /\ applies = 0
  /\ idle_run = [len |-> 0, n |-> 0]
  /\ calc = NoCall
  /\ staged_cfg = scn.cfg0
  /\ mgr = [NoManager EXCEPT !.manager = TRUE]

NextManager == MgrStart \/ MgrStop \/ LoopExit

SpecManager == InitManager /\ [][NextManager]_vars

\* InputRXSubTab.__init__ and _SuiteAddons._build_tray: button and action
\* checked, a manager created and started
InitSuite ==
  /\ scn = ShapeRun
  /\ cfg = scn.cfg0
  /\ xinput = FALSE
  /\ pc = "idle"
  /\ now = 0
  /\ w = WorkerInit
  /\ loc = LocInit
  /\ applying = <<>>
  /\ restart_queue = 0
  /\ quit_req = FALSE
  /\ applies = 0
  /\ idle_run = [len |-> 0, n |-> 0]
  /\ calc = NoCall
  /\ staged_cfg = scn.cfg0
  /\ mgr = [manager |-> TRUE, worker |-> 1,
            loops |-> [i \in ThreadIds |-> IF i = 1 THEN "running" ELSE "unborn"],
            toggle |-> TRUE, act_irx |-> TRUE, crashed |-> FALSE]

NextSuite == TabToggle \/ TrayToggle \/ LoopExit

SpecSuite == InitSuite /\ [][NextSuite]_vars

\* ---------------------------------------------------------------- claims
\* a tick has just run through dispatch
TickProcessed == pc = "top" /\ loc.kind = "processed"

\* C1: on every processed tick the final delta is within the active cap on
\* both axes, the active cap being the tighter of the per-tick cap and the
\* per-second cap scaled by the elapsed time (cap_dt as the tick computes it,
\* before any cover tightening).
C1_DeltaWithinActiveCap ==
  TickProcessed => Abs(loc.dx) <= loc.cap_min /\ Abs(loc.dy) <= loc.cap_min

\* C2: over two consecutive processed ticks, each axis of the final delta
\* changes by at most slew_cap = max(1, active_cap // 3) of the later tick.
C2_DeltaChangeWithinSlewCap ==
  [][ (pc = "gated" /\ pc' = "top"
         /\ loc.kind = "processed" /\ loc'.kind = "processed")
        => /\ Abs(loc'.dx - loc.dx) <= Max(1, loc'.cap_min \div 3)
           /\ Abs(loc'.dy - loc.dy) <= Max(1, loc'.cap_min \div 3) ]_vars

\* C3: the gate changes only in a tick's gate update; from Disengaged it
\* becomes Engaged exactly on a magnitude at or above the engage threshold;
\* from Engaged it stays Engaged exactly on a magnitude at or above the
\* release threshold; and a tick that leaves the gate Disengaged injects
\* nothing.
C3_EngagementHysteresis ==
  /\ pc = "gated" =>
        (w.engaged <=> IF loc.engaged_before THEN loc.magp >= loc.release
                                             ELSE loc.magp >= loc.engage)
  /\ pc \in {"top", "slept"} /\ loc.kind = "processed" /\ loc.sent => w.engaged

\* the gate held Engaged by a magnitude inside the hysteresis band
C3_Witness ==
  /\ pc = "gated" /\ loc.engaged_before /\ w.engaged
  /\ loc.magp < loc.engage /\ loc.magp >= loc.release

\* C4: a processed tick sends its delta if and only if the gate is Engaged
\* after the tick's gate update, the inhibition flag is off or no face
\* button is held, and the final delta is not (0,0).
C4_SentIffEngagedUninhibitedNonzero ==
  [][ (pc = "gated" /\ pc' = "top" /\ loc'.kind = "processed")
        => (loc'.sent <=>
              /\ w'.engaged
              /\ ~(cfg.inhibit_mouse_when_buttons
                     /\ (loc.wButtons \cap XINPUT_FACE_MASK) # {})
              /\ (loc'.dx # 0 \/ loc'.dy # 0)) ]_vars

\* a nonzero delta of an Engaged gate withheld because a face button is held
C4_Witness ==
  /\ TickProcessed /\ w.engaged /\ (loc.dx # 0 \/ loc.dy # 0)
  /\ (loc.wButtons \cap XINPUT_FACE_MASK) # {} /\ ~loc.sent

\* the value of the selected trigger on the tick, under threshold 45 and
\* hysteresis 8
AimTick == pc = "gated" /\ loc.thr = 45 /\ loc.hyst = 8
AimValue == TrigValue(loc.trig, loc.lt, loc.rt)

\* C5 as stated: from outside aim-mode a value above 53 enters it; in
\* aim-mode, every tick whose value is not below 37 stays in aim-mode, so
\* that aim-mode is left only on a value below 37.
C5_AsStated ==
  AimTick => /\ (~loc.ads_before /\ AimValue > 53 => loc.ads)
             /\ (loc.ads_before /\ AimValue >= 37 => loc.ads)

\* C5, amended: from outside aim-mode a tick enters it exactly when its
\* value is above 53; in aim-mode a tick stays in it exactly when its value
\* is above 37, and leaves it on a value of 37 or below.
C5_AimHysteresis ==
  AimTick => (loc.ads <=> IF loc.ads_before THEN AimValue > 37
                                            ELSE AimValue > 53)

\* aim-mode left on a tick whose value is exactly 37
C5_Witness ==
  AimTick /\ loc.ads_before /\ AimValue = 37 /\ ~loc.ads

\* C6: at the end of the idle_frames_to_zero-th tick of a run of consecutive
\* processed ticks that each had a magnitude below idle_epsilon and a final
\* delta of (0,0), the smoothed pair and both accumulator remainders are 0.
C6_IdleSettleZeroes ==
  (TickProcessed /\ idle_run.len > 0 /\ idle_run.len = idle_run.n)
    => w.f_nx = 0 /\ w.f_ny = 0 /\ w.accum_x = 0 /\ w.accum_y = 0

\* such a tick, of a run of at least two, that still had a residual
\* magnitude to clear
C6_Witness ==
  /\ TickProcessed /\ idle_run.n >= 2 /\ idle_run.len = idle_run.n
  /\ loc.magp > 0

\* C7: a soft restart queued while the loop runs is served within the
\* loop's next iteration: an iteration that began with a restart queued
\* does not end with it still queued.
C7_RestartServedByNextIteration ==
  [][ (pc \in {"slept", "gated"} /\ pc' = "top" /\ loc.pending)
        => restart_queue' = 0 ]_vars

\* a step that delivers a queued restart
RestartDelivered == restart_queue' < restart_queue

\* what every soft restart zeroes
FiltersZeroed ==
  /\ w'.f_nx = 0 /\ w'.f_ny = 0 /\ w'.sens_curr = 0
  /\ w'.accum_x = 0 /\ w'.accum_y = 0 /\ w'.dx_prev = 0 /\ w'.dy_prev = 0

\* C8 as stated: a soft restart returns every Loop State field to its
\* initial value, the gate, the idle counter, the previous aim-mode and the
\* guard deadline included.
C8_AsStated ==
  [][ RestartDelivered
        => /\ FiltersZeroed
           /\ w'.engaged = WorkerInit.engaged
           /\ w'.idle_frames = WorkerInit.idle_frames
           /\ w'.ads_prev = WorkerInit.ads_prev
           /\ w'.cover_until = WorkerInit.cover_until ]_vars

\* C8, amended: a soft restart zeroes the filtered pair, the ramped
\* sensitivity, the accumulator remainders and the previous delta, and
\* leaves the gate, the idle counter, the previous aim-mode and the guard
\* deadline as they were.
C8_RestartResetsFiltersOnly ==
  [][ RestartDelivered
        => /\ FiltersZeroed
           /\ w'.engaged = w.engaged
           /\ w'.idle_frames = w.idle_frames
           /\ w'.ads_prev = w.ads_prev
           /\ w'.cover_until = w.cover_until ]_vars

\* a restart delivered to a worker whose gate was Engaged: filters zeroed
\* (the sensitivity is 0 only before the first tick or after a restart),
\* gate still Engaged
C8_Witness ==
  /\ pc = "crashed" /\ restart_queue = 0 /\ w.sens_curr = 0 /\ w.f_nx = 0
  /\ w.engaged

\* the configurations that were ever in force as a whole
WholeConfigs ==
  InitialConfigs \cup {Overlay(r.cfg0, u) : r \in Runs, u \in UNION {q.profiles : q \in Runs}}

\* C9: every configuration value a tick reads comes from one configuration:
\* the values read agree, field for field, with one configuration that was
\* in force as a whole.
C9_TickReadsOneConfiguration ==
  TickProcessed =>
    \E c \in WholeConfigs :
      \A k \in TopReads \cup HeadReads \cup TailReads : loc.cfg_read[k] = c[k]

\* C10: an exception raised in an iteration abandons that tick only; the
\* loop never exits because of it.
C10_LoopSurvivesExceptions == pc # "crashed"

\* C11: a tick on which the displacement or an accumulator is not finite
\* treats it as zero: the tick runs through dispatch with an integer delta
\* and leaves finite accumulators, so that the following ticks are processed.
C11_NonFiniteTreatedAsZero ==
  [][ (pc = "gated" /\ pc' = "top" /\ AccumNonFinite(w, cfg))
        => /\ loc'.kind = "processed"
           /\ w'.accum_x # NonFinite /\ w'.accum_y # NonFinite ]_vars

\* the tick's guard ran with the guard enabled and its button held
CoverPressed ==
  /\ pc = "gated"
  /\ loc.cfg_read.cover_guard_enabled
  /\ loc.cfg_read.cover_button \in loc.wButtons

\* C12: with the cover guard enabled, a tick on which the designated button
\* is pressed makes the guard active, with a deadline at least the guard
\* duration away; the guard is active exactly while the deadline has not
\* passed, and while it is active the effective sensitivity is the ramped
\* sensitivity times the guard scale.
C12_CoverGuardActiveOnPress ==
  (pc = "gated" /\ loc.cfg_read.cover_guard_enabled)
    => /\ CoverPressed
          => /\ w.cover_active
             /\ w.cover_until >= now + MsToClock(loc.cfg_read.cover_guard_ms)
       /\ w.cover_active <=> now <= w.cover_until
       /\ w.cover_active
          => loc.sens_eff = FMul(w.sens_curr,
                                 Clamp(One \div 2, One, loc.cfg_read.cover_scale))

\* C13: on a tick with the cover guard's window open (its button held),
\* aim-mode exemption not applying and the processed magnitude inside the
\* gate radius, each axis of the final delta is within the snap ceiling, or
\* within the previous delta where the slew limit holds it there.
C13_SnapCeilingLimitsDelta ==
  [][ ( /\ CoverPressed
        /\ ~(cfg.cover_ads_exempt /\ loc.ads)
        /\ loc.magp <= Clamp(0, One, cfg.cover_gate_norm)
        /\ pc' = "top" /\ loc'.kind = "processed" )
        => /\ Abs(loc'.dx) <= Max(Max(1, cfg.cover_snap_max_px), Abs(w.dx_prev))
           /\ Abs(loc'.dy) <= Max(Max(1, cfg.cover_snap_max_px), Abs(w.dy_prev)) ]_vars

\* C14: on every tick that reaches the engagement gate, the release
\* threshold the gate uses is at most the engage threshold it uses.
C14_ReleaseAtMostEngage ==
  pc = "gated" => loc.release <= loc.engage

\* C15: the pixel scale a processed tick has used lies within the field's
\* valid range, whatever value the configuration holds, and a finite
\* out-of-range value ends neither the tick nor the loop.
C15_OutOfRangeCoerced ==
  /\ TickProcessed
       => /\ PixelScaleMin <= PixelScale(loc.cfg_read)
          /\ PixelScale(loc.cfg_read) <= PixelScaleMax
  /\ (scn.cfg0 = Wide /\ pc = "top" /\ loc.kind # "none")
       => loc.kind \in {"processed", "skipped"}

\* C16: whatever poll rate is configured, the period the loop sleeps for
\* is that of a rate between 60 and 360 Hz: at least 1/360 s and at most
\* 1/60 s.
C16_TickPeriodWithinPollRange ==
  pc = "slept"
    => /\ loc.tick * PollHzMax >= TicksPerSecond - PollHzMax
       /\ loc.tick * PollHzMin <= TicksPerSecond

MagnitudeWithinDeadzone ==
  ClampAxis(calc.x) * ClampAxis(calc.x) + ClampAxis(calc.y) * ClampAxis(calc.y)
    <= Clamp(0, AxisMax, calc.dz) * Clamp(0, AxisMax, calc.dz)

\* C18: for every raw axis pair and deadzone radius, a raw magnitude at most
\* the deadzone radius makes normalize_right_stick return exactly (0, 0),
\* magnitude exactly 8689 at deadzone 8689 included.
C18_DeadzoneYieldsExactZero ==
  (calc.op = "normalized" /\ MagnitudeWithinDeadzone)
    => (calc.zero /\ calc.out = <<0, 0>>)

\* the call's axis pair after the clamp to +/-32767, and its raw magnitude
CallMagnitude ==
  ISqrt(ClampAxis(calc.x) * ClampAxis(calc.x)
        + ClampAxis(calc.y) * ClampAxis(calc.y))

\* the linear remap of the call's magnitude: 0 at the deadzone, One at 32767
LinearRemap ==
  TDiv((CallMagnitude - calc.dz) * One, AxisMax - calc.dz)

\* C19: for a raw axis pair with magnitude above the deadzone, the magnitude
\* of normalize_right_stick's result is the linear remap of the raw
\* magnitude (0 at the deadzone, 1 at the maximum, about 0.5 midway), to
\* within the fixed-point resolution, and the result has the direction of
\* the raw pair.
C19_LinearRemapPreservesDirection ==
  (calc.op = "normalized" /\ ~MagnitudeWithinDeadzone)
    => /\ Abs(Hypot(calc.out[1], calc.out[2]) - LinearRemap) <= 2
       /\ Abs(ClampAxis(calc.x) * calc.out[2] - ClampAxis(calc.y) * calc.out[1])
            <= Abs(ClampAxis(calc.x)) + Abs(ClampAxis(calc.y))
       /\ calc.out[1] * ClampAxis(calc.x) >= 0
       /\ calc.out[2] * ClampAxis(calc.y) >= 0

\* C20: apply_curve is odd, apply_curve(-v, e) = -apply_curve(v, e) for
\* every value and exponent, and an exponent below 0.1 gives the result of
\* the exponent 0.1.
C20_CurveIsOdd ==
  calc.op = "curved"
    => /\ calc.neg = 0 - calc.pos
       /\ calc.e < One \div 10 => calc.pos = calc.floored

\* a negative value curved with an exponent below 0.1
C20_Witness ==
  /\ calc.op = "curved" /\ calc.v < 0 /\ calc.e < One \div 10
  /\ calc.pos < 0 /\ calc.neg > 0

\* the sensitivity target of the tick being processed, and the ramped
\* sensitivity the tick started from (the target itself after a reset)
RampTarget == SensTarget(cfg, loc'.ads)
RampFrom == IF w.sens_curr <= 0 THEN RampTarget ELSE w.sens_curr

\* C21: on every processed tick the ramped sensitivity ends no farther from
\* its target than it started and on the same side of it, and, whatever the
\* ramp rate, strictly closer when it was at least a tenth away: under a
\* constant target it converges.
C21_RampConvergesMonotonically ==
  [][ (pc = "slept" /\ pc' = "gated")
        => /\ Abs(RampTarget - w'.sens_curr) <= Abs(RampTarget - RampFrom)
           /\ RampFrom <= RampTarget => w'.sens_curr <= RampTarget
           /\ RampFrom >= RampTarget => w'.sens_curr >= RampTarget
           /\ Abs(RampTarget - RampFrom) >= One \div 10
                => Abs(RampTarget - w'.sens_curr) < Abs(RampTarget - RampFrom)
    ]_vars

\* a tick ends having published a diagnostic tuple
Publishes == pc \in {"slept", "gated"} /\ pc' = "top" /\ loc'.emitted # "none"

\* C22: a diagnostic tuple published by a tick, in any branch, throttled or
\* heartbeat, comes at least 1/120 s after the previous publication (there
\* is one once the refresh deadline has been set), and a tick publishes one
\* tuple at most: the heartbeat is only for a tick that published nothing.
C22_PublicationsAtUiRate ==
  [][ Publishes
        => /\ w.ui_next > 0 => now' - w.last_emit >= TicksPerSecond \div 120
           /\ w'.last_emit = now'
           /\ loc'.emitted = "heartbeat" => ~(now' >= w.ui_next) ]_vars

\* a publication later than the first, in a run that starts publishing on
\* its first tick
C22_Witness ==
  /\ pc = "top" /\ loc.emitted \in {"sample", "zero"}
  /\ scn.profiles = {} /\ w.last_emit = now
  /\ now >= 2 * (TicksPerSecond \div 120)

\* a tick reaches the controller read (enabled, focused or not focus-gated)
\* and finds no controller
NoControllerTick ==
  /\ pc = "slept" /\ pc' # "slept"
  /\ cfg.enabled /\ (cfg.only_when_focused => Focused(cfg, loc'.title))
  /\ ~loc'.connected

\* C23: a tick that finds no controller (none connected, or every read
\* raising) injects nothing, publishes at most the all-zero tuple, leaves
\* the filter state alone, and hands over to the next iteration: the loop
\* neither blocks nor ends.
C23_AbsentControllerSkipsTick ==
  [][ NoControllerTick
        => /\ pc' = "top" /\ w'.run = w.run
           /\ loc'.kind = "skipped" /\ ~loc'.sent
           /\ loc'.emitted \in {"none", "zero", "heartbeat"}
           /\ w'.f_nx = w.f_nx /\ w'.f_ny = w.f_ny
           /\ w'.engaged = w.engaged
           /\ w'.accum_x = w.accum_x /\ w'.accum_y = w.accum_y ]_vars

\* a focused tick without a controller that published the zero tuple, and
\* the iteration after it under way
C23_Witness ==
  /\ pc = "slept" /\ loc.kind = "skipped" /\ ~loc.connected
  /\ loc.title # "" /\ loc.emitted = "zero"

\* C24: with focus gating on, a tick on which the foreground-window query
\* fails (it returns "") is treated as unfocused, whatever the configured
\* target-window substring: the tick is skipped and injects no delta.
C24_FailedTitleQueryIsUnfocused ==
  [][ ( /\ pc = "slept" /\ pc' # "slept"
        /\ cfg.enabled /\ cfg.only_when_focused
        /\ loc'.title = "" )
        => (pc' = "top" /\ loc'.kind = "skipped" /\ ~loc'.sent) ]_vars

\* C25: apply_config overwrites exactly the fields its update names, leaves
\* every other field as it was, passes over names the configuration does
\* not have, and always returns: a started update can always take its next
\* step, and when it returns the configuration is the one from before the
\* call overlaid with the update.
C25_ApplyConfigOverwritesNamedFields ==
  /\ [](applying # <<>> => ENABLED (ApplyField \/ ApplyDone))
  /\ [][(applying # <<>> /\ applying' = <<>>) =>
          /\ cfg' = Overlay(applying[1].before, applying[1].target)
          /\ DOMAIN cfg' = DOMAIN Config]_vars

\* an update naming an unknown field has returned, the named fields
\* overwritten and another field still at its earlier, non-default value
C25_Witness ==
  /\ scn.profiles = {PartialUpdate} /\ applies = 1 /\ applying = <<>>
  /\ cfg.sens_ramp = PartialUpdate.sens_ramp
  /\ cfg.smoothing_alpha = PartialUpdate.smoothing_alpha
  /\ Fast.smoothing_alpha # PartialUpdate.smoothing_alpha
  /\ cfg.poll_hz = Fast.poll_hz /\ Fast.poll_hz # Config.poll_hz
  /\ cfg # Fast

\* a tick is processed with its processed magnitude inside the micro-jolt
\* radius
MicroTick ==
  /\ pc = "gated" /\ pc' = "top" /\ loc'.kind = "processed"
  /\ loc.magp <= Max((2 * One) \div 100, cfg.micro_jolt_radius_norm)

\* C26: on every processed tick whose processed magnitude is inside the
\* micro-jolt radius, each axis of the final delta differs from the previous
\* delta by at most micro_slew_cap_pixels.
C26_MicroJoltCapsChange ==
  [][ MicroTick
        => /\ Abs(loc'.dx - w.dx_prev) <= cfg.micro_slew_cap_pixels
           /\ Abs(loc'.dy - w.dy_prev) <= cfg.micro_slew_cap_pixels ]_vars

\* C27: with the directional-flip guard on, on a processed tick whose
\* processed magnitude is inside the micro-jolt radius the final delta on an
\* axis never has the opposite sign to a non-zero previous delta on that
\* axis.
C27_NoSignFlipInsideRadius ==
  [][ (MicroTick /\ cfg.dir_flip_guard)
        => /\ w.dx_prev > 0 => loc'.dx >= 0
           /\ w.dx_prev < 0 => loc'.dx <= 0
           /\ w.dy_prev > 0 => loc'.dy >= 0
           /\ w.dy_prev < 0 => loc'.dy <= 0 ]_vars

\* inside the radius with the guard on, the truncated delta pointed against
\* a previous delta of more than one pixel and the final delta is the
\* previous delta halved
C27_Witness ==
  /\ TickProcessed /\ loc.cfg_read.dir_flip_guard
  /\ loc.magp <= Max((2 * One) \div 100, loc.cfg_read.micro_jolt_radius_norm)
  /\ \/ /\ loc.dx_before > 1 /\ loc.dx_int < 0
        /\ loc.dx = TDiv(loc.dx_before, 2)
     \/ /\ loc.dx_before < 0 - 1 /\ loc.dx_int > 0
        /\ loc.dx = TDiv(loc.dx_before, 2)

\* C28: jitter rounding is the last stage that changes the delta: on every
\* processed tick the final delta is exactly (0,0) or has an axis whose
\* absolute value exceeds the jitter threshold the tick read.
C28_FinalDeltaZeroOrAboveJitter ==
  TickProcessed
    => \/ loc.dx = 0 /\ loc.dy = 0
       \/ Abs(loc.dx) > Max(0, loc.cfg_read.jitter_threshold)
       \/ Abs(loc.dy) > Max(0, loc.cfg_read.jitter_threshold)

\* from a previous delta of (0,0) the accumulators gave one pixel on one
\* axis, which every guard lets through and the rounding turned into (0,0)
C28_Witness ==
  /\ TickProcessed /\ loc.dx_before = 0 /\ loc.dy_before = 0
  /\ Abs(loc.dx_int) = 1 /\ loc.dy_int = 0
  /\ loc.cfg_read.jitter_threshold >= 1
  /\ loc.dx = 0 /\ loc.dy = 0

\* C29: after every processed tick, on each axis the accumulator remainder
\* is below one pixel in absolute value, and the integer parts truncated
\* since the accumulators were last zeroed plus the remainder equal the
\* continuous displacements added since then.
C29_SubPixelCarryConserved ==
  TickProcessed
    => /\ Abs(w.accum_x) < One /\ Abs(w.accum_y) < One
       /\ loc.sum_int_x * One + w.accum_x = loc.sum_f_x
       /\ loc.sum_int_y * One + w.accum_y = loc.sum_f_y

\* several ticks have added to an accumulator: integer parts were taken on
\* earlier ticks and a remainder is carried
C29_Witness ==
  /\ TickProcessed /\ w.accum_x # 0
  /\ loc.sum_int_x # 0 /\ loc.sum_int_x # loc.dx_int
  /\ loc.sum_f_x # loc.sum_int_x * One

\* the tick just processed was idle: processed magnitude below idle_epsilon
\* and a final delta of (0,0)
IdleTick ==
  /\ TickProcessed /\ loc.magp < loc.cfg_read.idle_epsilon
  /\ loc.dx = 0 /\ loc.dy = 0

\* C30: every processed tick that is not idle leaves the idle-frame counter
\* at 0, and the hard reset (an idle tick that leaves the counter at 0) only
\* happens on a tick that ends an unbroken run of at least
\* idle_frames_to_zero idle ticks, the counter never exceeding the length of
\* the run.
C30_NonIdleTickResetsCounter ==
  /\ (TickProcessed /\ ~IdleTick) => w.idle_frames = 0
  /\ (IdleTick /\ w.idle_frames = 0)
       => /\ loc.idle_ticks >= loc.cfg_read.idle_frames_to_zero
          /\ loc.idle_before + 1 >= loc.cfg_read.idle_frames_to_zero
  /\ TickProcessed => w.idle_frames <= loc.idle_ticks

\* a tick that is not idle has reset a counter that idle ticks had raised
C30_Witness ==
  /\ TickProcessed /\ ~IdleTick
  /\ loc.idle_before > 0 /\ w.idle_frames = 0

\* the selected trigger's value on the tick at the gate
TriggerValue == TrigValue(loc.trig, loc.lt, loc.rt)

\* C31 as stated: on a tick whose selected trigger value is strictly between
\* T-H and T+H, aim-mode is what it was on the tick before.
C31_AsStated ==
  (pc = "gated" /\ loc.thr - loc.hyst < TriggerValue
                /\ TriggerValue < loc.thr + loc.hyst)
    => loc.ads = loc.ads_before

\* C31, amended: on a tick whose selected trigger value is strictly between
\* max(0, T-H) and T+H, aim-mode is what it was on the tick before; with
\* T < H a fully released trigger (value 0) leaves aim-mode.
C31_AimModeHeldInsideBand ==
  /\ (pc = "gated" /\ Max(0, loc.thr - loc.hyst) < TriggerValue
                   /\ TriggerValue < loc.thr + loc.hyst)
       => loc.ads = loc.ads_before
  /\ (pc = "gated" /\ loc.ads_before /\ TriggerValue = 0) => ~loc.ads

\* aim-mode kept on a tick whose value lies inside the band, below T
C31_Witness ==
  /\ pc = "gated" /\ loc.ads_before /\ loc.ads
  /\ Max(0, loc.thr - loc.hyst) < TriggerValue /\ TriggerValue < loc.thr

\* C36: a tick on which the selected trigger is fully pressed (value 255)
\* while outside aim-mode enters aim-mode, whatever the threshold and the
\* hysteresis.
C36_FullPressEntersAimMode ==
  (pc = "gated" /\ ~loc.ads_before /\ TriggerValue = 255) => loc.ads

\* C32: the soft zone does not otherwise attenuate the signal: once a full
\* deflection has been held for SettleTicks processed ticks, the processed
\* magnitude is at least 0.9.
C32_FullDeflectionConvergesToOne ==
  (pc = "gated" /\ loc.full_ticks >= SettleTicks)
    => loc.magp >= (9 * One) \div 10

\* the controller snapshot the tick at the gate saw
SeenPad ==
  [connected |-> TRUE, sThumbRX |-> loc.sThumbRX, sThumbRY |-> loc.sThumbRY,
   bLeftTrigger |-> loc.lt, bRightTrigger |-> loc.rt, wButtons |-> loc.wButtons]

\* the worker state with the gate the other way round
OtherGate(wk) == [wk EXCEPT !.engaged = ~wk.engaged]

\* C33: a processed tick updates the low-pass state, the ramped sensitivity,
\* the accumulator remainders and the previous-delta record, and computes
\* its final delta, exactly as it would with the gate the other way round;
\* a tick that leaves the gate Disengaged injects nothing.
C33_DisengagedTickUpdatesState ==
  /\ [][ (pc = "slept" /\ pc' = "gated")
           => \E h \in {HeadFields(OtherGate(w), cfg, SeenPad', now')} :
                 /\ h.f_nx = w'.f_nx /\ h.f_ny = w'.f_ny
                 /\ h.sens_curr = w'.sens_curr /\ h.magp = loc'.magp ]_vars
  /\ [][ (pc = "gated" /\ pc' = "top" /\ loc'.kind = "processed")
           => \E r \in {TailFields(OtherGate(w), cfg, loc, now)} :
                 /\ r.w.f_nx = w'.f_nx /\ r.w.f_ny = w'.f_ny
                 /\ r.w.accum_x = w'.accum_x /\ r.w.accum_y = w'.accum_y
                 /\ r.w.dx_prev = w'.dx_prev /\ r.w.dy_prev = w'.dy_prev
                 /\ r.dx = loc'.dx /\ r.dy = loc'.dy
                 /\ ~w.engaged => ~loc'.sent ]_vars

\* a Disengaged tick computed a delta, did not send it, and recorded it as
\* the previous delta
C33_Witness ==
  /\ TickProcessed /\ ~w.engaged /\ ~loc.sent
  /\ loc.dx # 0 /\ w.dx_prev = loc.dx /\ loc.dx # loc.dx_before

\* C34: if from some tick on the stick stays inside the deadzone while
\* ticks keep being processed, then from some tick on the final delta is
\* (0,0) and nothing is injected.
C34_RestingStickComesToRest ==
  (/\ <>[](loc.sThumbRX = 0 /\ loc.sThumbRY = 0)
   /\ []<>(pc = "gated") /\ []<>TickProcessed)
    => <>[](loc.dx = 0 /\ loc.dy = 0 /\ ~loc.sent)

\* the worker state without the tick and publish timestamps
WithoutTimestamps(wk) ==
  [wk EXCEPT !.t_prev = 0, !.ui_next = 0, !.last_emit = 0]

\* C35: a tick skipped because the enable flag is off, the target window is
\* not focused or no controller is connected injects nothing and changes no
\* field of the loop state other than the tick and publish timestamps.
C35_SkippedTickKeepsLoopState ==
  [][ (pc = "slept" /\ pc' = "top" /\ loc'.kind = "skipped")
        => /\ ~loc'.sent
           /\ WithoutTimestamps(w') = WithoutTimestamps(w)
           /\ \/ ~cfg.enabled
              \/ cfg.only_when_focused /\ ~Focused(cfg, loc'.title)
              \/ ~loc'.connected ]_vars

\* a tick skipped with the enable flag off while the filter and the previous
\* delta still hold a deflection
C35_Witness ==
  /\ pc = "top" /\ loc.kind = "skipped" /\ ~cfg.enabled
  /\ w.f_nx # 0 /\ w.dx_prev # 0 /\ w.sens_curr # 0 /\ w.engaged
  /\ ~loc.sent

\* the cover button was last seen held longer ago than the guard duration
\* plus the release-settle window, counted back from time t
OutsideCoverWindow(t) ==
  t > loc.pressed_at + MsToClock(Max(0, cfg.cover_guard_ms))
                     + MsToClock(Max(0, cfg.cover_release_ms))

C39_StagingWritesOnlyTheLiveField ==
  [][ /\ (staged_cfg' # staged_cfg /\ applying' = <<>>) => cfg' = cfg
      /\ \A k \in DOMAIN cfg :
           (applying # <<>> /\ applying[1].stage # "" /\ cfg'[k] # cfg[k])
             => k = applying[1].stage ]_vars

\* C38: after any sequence of WorkerManager.start and WorkerManager.stop
\* calls, a second start without a stop and a stop whose wait ran out
\* included, at most one worker loop is running and able to inject
C38_AtMostOneLoopAlive == Cardinality(Alive(mgr)) <= 1

\* the loops nobody has told to stop
Running(m) == {i \in ThreadIds : m.loops[i] = "running"}

\* C40: in the suite, whenever the InputRX toggle is unchecked, from the tab
\* button or from the tray or menu action, no shaping loop is running, and
\* whenever it is checked exactly one loop is running
C40_ToggleMatchesLoop ==
  ~mgr.crashed =>
    IF mgr.toggle THEN Cardinality(Running(mgr)) = 1 ELSE Running(mgr) = {}

====
